---- MODULE Spec2Model ----
(***************************************************************************)
(* Flow builder: the graph store (useFlowStore), the canvas and settings   *)
(* panel handlers that replace its collections, the save-time validator    *)
(* (validateBeforeSave) and the save button (onSave).                      *)
(*                                                                         *)
(* A node id is the string `${type}-${timestamp}`; it is modelled as the   *)
(* pair <<type, timestamp>>, which the template maps one-to-one to the     *)
(* string for the kinds of the palette.  JavaScript's null is <<>>.        *)
(* A node keeps the position it was created at: drags, and React Flow's    *)
(* own per-node fields (selected, measured, dragging), are not part of the *)
(* state modelled here.                                                    *)
(***************************************************************************)
EXTENDS Integers, Sequences, FiniteSets, TLC

VARIABLES nodes, edges, selectedNodeId, error, success, timers, result, payload, deleted, call

vars == <<nodes, edges, selectedNodeId, error, success, timers, result, payload, deleted, call>>

store == <<nodes, edges, selectedNodeId>>

(* ---------------------------------------------------------------------- *)
(* Bounds                                                                  *)
(* ---------------------------------------------------------------------- *)
MaxNodes == 2

MaxEdges == 1

MaxTimers == 1

VMaxNodes == 3

VMaxEdges == 2

CMaxEdges == 2

TMaxTimers == 2

SMaxNodes == 2

SMaxEdges == 1

(* ---------------------------------------------------------------------- *)
(* Values                                                                  *)
(* ---------------------------------------------------------------------- *)
Null == <<>>

\* Date.now() readings at the drops.  The wall clock can give two drops the
\* same reading, so one reading already yields equal ids for two drops of a
\* kind and distinct ids for drops of different kinds; 'text-1' of the initial
\* node is no reading of a real clock.
Timestamps == {2}

\* What the palette (and a foreign drag) can put in the drag data.
DropTypes == {"text", "fileUpload", "newNodeType", ""}

\* Text typed into the settings textarea.
Texts == {"Hi"}

Keys == {"Delete", "Backspace"}

NoResult == [called |-> FALSE]

NoPayload == [emitted |-> FALSE]

\* No store operation has been called from outside the handlers: op is the
\* operation called last, args the last argument of each operation called.
NoCall == [op |-> "none", args |-> <<>>]

SuccessMessage == <<"Flow saved successfully.">>

\* A string is truthy in JavaScript unless it is null, undefined or empty.
\* An id or a message is a tuple here and is never the empty string.
Truthy(x) == x # Null

\* The drag data is always a string: getData returns "" when there is none.
TruthyType(type) == type # ""

(* ---------------------------------------------------------------------- *)
(* Sequence helpers: Array.prototype.filter / find / map                   *)
(* ---------------------------------------------------------------------- *)
RemoveId(seq, id) == SelectSeq(seq, LAMBDA n : n.id # id)

RemoveIds(seq, ids) == SelectSeq(seq, LAMBDA n : n.id \notin ids)

IdsOf(seq) == {seq[i].id : i \in DOMAIN seq}

HasNode(ns, id) == \E i \in DOMAIN ns : ns[i].id = id

\* nodes.find((n) => n.id === id): the first match; call only when HasNode.
FindNode(ns, id) ==
  ns[CHOOSE i \in DOMAIN ns : ns[i].id = id /\ \A j \in 1..(i - 1) : ns[j].id # id]

(* ---------------------------------------------------------------------- *)
(* validateBeforeSave                                                      *)
(* ---------------------------------------------------------------------- *)
EmptyMap == [k \in {} |-> 0]

\* outCount.get(k) ?? 0
MapGet(m, k) == IF k \in DOMAIN m THEN m[k] ELSE 0

MapSet(m, k, v) == [x \in DOMAIN m \cup {k} |-> IF x = k THEN v ELSE m[x]]

RECURSIVE OutCount_ByTarget(_, _)
\* Mutant: the tally is keyed by e.target instead of e.source.
OutCount_ByTarget(es, k) ==
  IF k = 0 THEN EmptyMap
  ELSE LET m == OutCount_ByTarget(es, k - 1)
           e == es[k]
       IN MapSet(m, e.target, MapGet(m, e.target) + 1)

RECURSIVE OutCount(_, _)
\* The map after edges.forEach has visited the first k edges.
OutCount(es, k) ==
  IF k = 0 THEN EmptyMap
  ELSE LET m == OutCount(es, k - 1)
           e == es[k]
       IN MapSet(m, e.source, MapGet(m, e.source) + 1)

ValidationMessage(n) ==
  <<"There are ", n, " nodes with empty target handles. At most 1 is allowed.">>

\* Mutant: no shortcut for flows of 0 or 1 nodes, and any node without an
\* outgoing edge is an error (length > 0 instead of length > 1).
validateBeforeSave_NoTrivialCase(ns, es) ==
  LET outCount == OutCount(es, Len(es))
      nodesWithNoOutgoing == SelectSeq(ns, LAMBDA n : MapGet(outCount, n.id) = 0)
  IN IF Len(nodesWithNoOutgoing) > 0
     THEN [ok |-> FALSE,
           message |-> ValidationMessage(Len(nodesWithNoOutgoing)),
           nodesWithNoOutgoing |->
             [i \in 1..Len(nodesWithNoOutgoing) |-> nodesWithNoOutgoing[i].id]]
     ELSE [ok |-> TRUE]

\* Mutant: the id list is mapped from nodes instead of nodesWithNoOutgoing.
validateBeforeSave_AllIds(ns, es) ==
  IF Len(ns) <= 1 THEN [ok |-> TRUE]
  ELSE LET outCount == OutCount(es, Len(es))
           nodesWithNoOutgoing == SelectSeq(ns, LAMBDA n : MapGet(outCount, n.id) = 0)
       IN IF Len(nodesWithNoOutgoing) > 1
          THEN [ok |-> FALSE,
                message |-> ValidationMessage(Len(nodesWithNoOutgoing)),
                nodesWithNoOutgoing |-> [i \in 1..Len(ns) |-> ns[i].id]]
          ELSE [ok |-> TRUE]

\* Mutant: edges with an end that is no node are left out of the tally.
validateBeforeSave_SkipsDangling(ns, es) ==
  IF Len(ns) <= 1 THEN [ok |-> TRUE]
  ELSE LET joined == SelectSeq(es, LAMBDA e : HasNode(ns, e.source) /\ HasNode(ns, e.target))
           outCount == OutCount(joined, Len(joined))
           nodesWithNoOutgoing == SelectSeq(ns, LAMBDA n : MapGet(outCount, n.id) = 0)
       IN IF Len(nodesWithNoOutgoing) > 1
          THEN [ok |-> FALSE,
                message |-> ValidationMessage(Len(nodesWithNoOutgoing)),
                nodesWithNoOutgoing |->
                  [i \in 1..Len(nodesWithNoOutgoing) |-> nodesWithNoOutgoing[i].id]]
          ELSE [ok |-> TRUE]

\* Mutant: a node counts unless it has exactly one outgoing edge.
validateBeforeSave_ExactlyOne(ns, es) ==
  IF Len(ns) <= 1 THEN [ok |-> TRUE]
  ELSE LET outCount == OutCount(es, Len(es))
           nodesWithNoOutgoing == SelectSeq(ns, LAMBDA n : MapGet(outCount, n.id) # 1)
       IN IF Len(nodesWithNoOutgoing) > 1
          THEN [ok |-> FALSE,
                message |-> ValidationMessage(Len(nodesWithNoOutgoing)),
                nodesWithNoOutgoing |->
                  [i \in 1..Len(nodesWithNoOutgoing) |-> nodesWithNoOutgoing[i].id]]
          ELSE [ok |-> TRUE]

\* Mutant: only text nodes count as nodes without an outgoing edge.
validateBeforeSave_TextOnly(ns, es) ==
  IF Len(ns) <= 1 THEN [ok |-> TRUE]
  ELSE LET outCount == OutCount(es, Len(es))
           nodesWithNoOutgoing ==
             SelectSeq(ns, LAMBDA n : MapGet(outCount, n.id) = 0 /\ n.type = "text")
       IN IF Len(nodesWithNoOutgoing) > 1
          THEN [ok |-> FALSE,
                message |-> ValidationMessage(Len(nodesWithNoOutgoing)),
                nodesWithNoOutgoing |->
                  [i \in 1..Len(nodesWithNoOutgoing) |-> nodesWithNoOutgoing[i].id]]
          ELSE [ok |-> TRUE]

validateBeforeSave(ns, es) ==
  IF Len(ns) <= 1 THEN [ok |-> TRUE]
  ELSE LET outCount == OutCount(es, Len(es))
           nodesWithNoOutgoing == SelectSeq(ns, LAMBDA n : MapGet(outCount, n.id) = 0)
       IN IF Len(nodesWithNoOutgoing) > 1
          THEN [ok |-> FALSE,
                message |-> ValidationMessage(Len(nodesWithNoOutgoing)),
                nodesWithNoOutgoing |->
                  [i \in 1..Len(nodesWithNoOutgoing) |-> nodesWithNoOutgoing[i].id]]
          ELSE [ok |-> TRUE]

(* ---------------------------------------------------------------------- *)
(* The store                                                               *)
(* ---------------------------------------------------------------------- *)
InitialNodes ==
  << [id |-> <<"text", 1>>, type |-> "text", position |-> [x |-> 400, y |-> 200],
      data |-> [text |-> "Hello World", type |-> "text"]] >>

Feedback0 ==
  /\ error = Null
  /\ success = Null
  /\ timers = 0
  /\ result = NoResult
  /\ payload = NoPayload
  /\ deleted = Null
  /\ call = NoCall

Init ==
  /\ nodes = InitialNodes
  /\ edges = <<>>
  /\ selectedNodeId = Null
  /\ Feedback0

\* A step of the canvas or of a panel: the save button's state is not touched
\* and the step computes no verdict and logs no payload.  (result and payload
\* hold what the last step's onSave computed and logged, deleted the id that
\* the last step's delete handler filtered out; they are locals and output of
\* one handler run, so every other step resets them.)
NoSave ==
  /\ result' = NoResult
  /\ payload' = NoPayload
  /\ call' = NoCall
  /\ UNCHANGED <<error, success, timers>>

\* The three operations of the store, called with any argument.  A call sets
\* its component and returns; call keeps the argument for the properties.
StoreCall(op, arg) ==
  /\ call' = [op |-> op, args |-> (op :> arg) @@ call.args]
  /\ result' = NoResult
  /\ payload' = NoPayload
  /\ deleted' = Null
  /\ UNCHANGED <<error, success, timers>>

\* Mutant: setNodes also drops the edges that no longer join two nodes.
setNodes_DropsEdges(n) ==
  /\ nodes' = n
  /\ edges' = SelectSeq(edges, LAMBDA e : HasNode(n, e.source) /\ HasNode(n, e.target))
  /\ UNCHANGED selectedNodeId
  /\ StoreCall("setNodes", n)

setNodes(n) ==
  /\ nodes' = n
  /\ UNCHANGED <<edges, selectedNodeId>>
  /\ StoreCall("setNodes", n)

setEdges(e) ==
  /\ edges' = e
  /\ UNCHANGED <<nodes, selectedNodeId>>
  /\ StoreCall("setEdges", e)

setSelectedNodeId(id) ==
  /\ selectedNodeId' = id
  /\ UNCHANGED <<nodes, edges>>
  /\ StoreCall("setSelectedNodeId", id)

(* ---------------------------------------------------------------------- *)
(* FlowCanvas                                                              *)
(* ---------------------------------------------------------------------- *)
HasCase(type) == type \in {"text", "fileUpload"}

\* createNode: call only when HasCase(type); the default case returns null.
createNode(type, position, timestamp) ==
  IF type = "text"
  THEN [id |-> <<type, timestamp>>, type |-> "text", position |-> position,
        data |-> [text |-> "New message", type |-> "text"]]
  ELSE [id |-> <<type, timestamp>>, type |-> "fileUpload", position |-> position,
        data |-> [label |-> "Upload Files", allowedTypes |-> <<>>, maxSize |-> 5,
                  multiple |-> FALSE, type |-> "fileUpload"]]

\* The drop point relative to the canvas: event.clientX - reactFlowBounds.left
\* and event.clientY - reactFlowBounds.top.
DropPosition == [x |-> 50, y |-> 60]

\* Mutant: the new node is put before the existing ones.
OnDrop_Prepends(type, timestamp) ==
  /\ IF TruthyType(type) /\ HasCase(type)
     THEN /\ Len(nodes) < MaxNodes
          /\ nodes' = <<createNode(type, DropPosition, timestamp)>> \o nodes
     ELSE UNCHANGED nodes
  /\ UNCHANGED <<edges, selectedNodeId>>
  /\ deleted' = Null
  /\ NoSave

OnDrop(type, timestamp) ==
  /\ IF TruthyType(type) /\ HasCase(type)
     THEN /\ Len(nodes) < MaxNodes
          /\ nodes' = Append(nodes, createNode(type, DropPosition, timestamp))
     ELSE UNCHANGED nodes
  /\ UNCHANGED <<edges, selectedNodeId>>
  /\ deleted' = Null
  /\ NoSave

\* applyNodeChanges for a batch whose 'remove' changes name the ids in removed
\* (the other change kinds touch only fields that are not modelled).
applyNodeChanges(removed, ns) == RemoveIds(ns, removed)

OnNodesChange(removed) ==
  /\ nodes' = applyNodeChanges(removed, nodes)
  /\ UNCHANGED <<edges, selectedNodeId>>
  /\ deleted' = Null
  /\ NoSave

applyEdgeChanges(removed, es) == RemoveIds(es, removed)

OnEdgesChange(removed) ==
  /\ edges' = applyEdgeChanges(removed, edges)
  /\ UNCHANGED <<nodes, selectedNodeId>>
  /\ deleted' = Null
  /\ NoSave

\* The ids of the one source handle and the one target handle that TextNode
\* and FileUploadNode render; a connection is always dragged from the first
\* to the second.
SourceHandle == "right"

TargetHandle == "left"

\* The edge id is built from the two node ids only; the handles are fields
\* of the edge and no part of its id.
NewEdge(source, target) ==
  [id |-> <<"edge", source, target>>, source |-> source, target |-> target,
   sourceHandle |-> SourceHandle, targetHandle |-> TargetHandle]

\* onConnect in a run that holds at most max edges.
Connect(source, target, max) ==
  /\ IF Truthy(source) /\ Truthy(target)
     THEN /\ Len(edges) < max
          /\ edges' = Append(edges, NewEdge(source, target))
     ELSE UNCHANGED edges
  /\ UNCHANGED <<nodes, selectedNodeId>>
  /\ deleted' = Null
  /\ NoSave

OnConnect(source, target) == Connect(source, target, MaxEdges)

OnNodeClick(i) ==
  /\ selectedNodeId' = nodes[i].id
  /\ UNCHANGED <<nodes, edges>>
  /\ deleted' = Null
  /\ NoSave

OnPaneClick ==
  /\ selectedNodeId' = Null
  /\ UNCHANGED <<nodes, edges>>
  /\ deleted' = Null
  /\ NoSave

\* Mutant: when no node has the selected id, the Delete key removes the
\* last node.
OnKeyDown_RemovesLast(key) ==
  /\ IF key = "Delete" /\ Truthy(selectedNodeId)
     THEN /\ nodes' = (IF HasNode(nodes, selectedNodeId)
                       THEN RemoveId(nodes, selectedNodeId)
                       ELSE SubSeq(nodes, 1, Len(nodes) - 1))
          /\ selectedNodeId' = Null
          /\ deleted' = selectedNodeId
     ELSE /\ UNCHANGED <<nodes, selectedNodeId>>
          /\ deleted' = Null
  /\ UNCHANGED edges
  /\ NoSave

OnKeyDown(key) ==
  /\ IF key = "Delete" /\ Truthy(selectedNodeId)
     THEN /\ nodes' = RemoveId(nodes, selectedNodeId)
          /\ selectedNodeId' = Null
          /\ deleted' = selectedNodeId
     ELSE /\ UNCHANGED <<nodes, selectedNodeId>>
          /\ deleted' = Null
  /\ UNCHANGED edges
  /\ NoSave

(* ---------------------------------------------------------------------- *)
(* Settings panels                                                         *)
(* ---------------------------------------------------------------------- *)
\* FlowCanvas renders FileUploadSettingsPanel when the selected node is a
\* fileUpload node and SettingsPanel for any other truthy selection; either
\* panel renders nothing (no button, no field) when the node is not found.
SettingsPanelShown ==
  /\ Truthy(selectedNodeId)
  /\ HasNode(nodes, selectedNodeId)
  /\ FindNode(nodes, selectedNodeId).type # "fileUpload"

FileUploadPanelShown ==
  /\ Truthy(selectedNodeId)
  /\ HasNode(nodes, selectedNodeId)
  /\ FindNode(nodes, selectedNodeId).type = "fileUpload"

\* { ...n, data: { ...n.data, key: value } }: the spread copies every field
\* of n and of n.data and sets data[key], adding the field when data has none.
WithData(n, key, value) == [n EXCEPT !.data = (key :> value) @@ n.data]

SetText(n, text) == WithData(n, "text", text)

\* Mutant: the edited node is taken out and put back at the end.
OnChangeText_MovesToEnd(text) ==
  /\ SettingsPanelShown
  /\ LET node == FindNode(nodes, selectedNodeId)
     IN nodes' = RemoveId(nodes, node.id) \o
                 [i \in 1..Len(SelectSeq(nodes, LAMBDA n : n.id = node.id)) |->
                    SetText(SelectSeq(nodes, LAMBDA n : n.id = node.id)[i], text)]
  /\ UNCHANGED <<edges, selectedNodeId>>
  /\ deleted' = Null
  /\ NoSave

\* Mutant: the text panel is shown for a selected node of any kind.
OnChangeText_AnyKind(text) ==
  /\ Truthy(selectedNodeId)
  /\ HasNode(nodes, selectedNodeId)
  /\ LET node == FindNode(nodes, selectedNodeId)
     IN nodes' = [i \in DOMAIN nodes |->
                    IF nodes[i].id = node.id THEN SetText(nodes[i], text) ELSE nodes[i]]
  /\ UNCHANGED <<edges, selectedNodeId>>
  /\ deleted' = Null
  /\ NoSave

OnChangeText(text) ==
  /\ SettingsPanelShown
  /\ LET node == FindNode(nodes, selectedNodeId)
     IN nodes' = [i \in DOMAIN nodes |->
                    IF nodes[i].id = node.id THEN SetText(nodes[i], text) ELSE nodes[i]]
  /\ UNCHANGED <<edges, selectedNodeId>>
  /\ deleted' = Null
  /\ NoSave

\* Mutant: the delete button also filters out the edges at the node.
OnDeleteNode_Cascade ==
  /\ SettingsPanelShown
  /\ LET node == FindNode(nodes, selectedNodeId)
     IN /\ nodes' = RemoveId(nodes, node.id)
        /\ edges' = SelectSeq(edges, LAMBDA e : e.source # node.id /\ e.target # node.id)
        /\ deleted' = node.id
  /\ selectedNodeId' = Null
  /\ NoSave

OnDeleteNode ==
  /\ SettingsPanelShown
  /\ LET node == FindNode(nodes, selectedNodeId)
     IN /\ nodes' = RemoveId(nodes, node.id)
        /\ deleted' = node.id
  /\ selectedNodeId' = Null
  /\ UNCHANGED edges
  /\ NoSave

FileUploadOnDeleteNode ==
  /\ FileUploadPanelShown
  /\ LET node == FindNode(nodes, selectedNodeId)
     IN /\ nodes' = RemoveId(nodes, node.id)
        /\ deleted' = node.id
  /\ selectedNodeId' = Null
  /\ UNCHANGED edges
  /\ NoSave

\* A string that is parsed is the sequence of its characters.  parseInt(str)
\* without a radix: leading white space is skipped, one sign is read, then
\* the longest run of decimal digits; what follows the digits is ignored and
\* no digit at all gives NaN.  (No input below starts with "0x", the one
\* prefix that would select radix 16.)
WhiteSpace == {" "}

Digits == {"0", "1", "2", "3", "4", "5", "6", "7", "8", "9"}

DigitValue(c) ==
  CASE c = "0" -> 0 [] c = "1" -> 1 [] c = "2" -> 2 [] c = "3" -> 3 [] c = "4" -> 4
    [] c = "5" -> 5 [] c = "6" -> 6 [] c = "7" -> 7 [] c = "8" -> 8 [] c = "9" -> 9

RECURSIVE TrimStart(_)
TrimStart(str) ==
  IF str # <<>> /\ Head(str) \in WhiteSpace THEN TrimStart(Tail(str)) ELSE str

RECURSIVE DigitPrefix(_)
DigitPrefix(str) ==
  IF str # <<>> /\ Head(str) \in Digits
  THEN <<Head(str)>> \o DigitPrefix(Tail(str))
  ELSE <<>>

RECURSIVE DecimalValue(_)
DecimalValue(ds) ==
  IF ds = <<>> THEN 0
  ELSE 10 * DecimalValue(SubSeq(ds, 1, Len(ds) - 1)) + DigitValue(ds[Len(ds)])

NaN == [nan |-> TRUE, value |-> 0]

parseInt(str) ==
  LET s == TrimStart(str)
      signed == s # <<>> /\ Head(s) \in {"-", "+"}
      sign == IF s # <<>> /\ Head(s) = "-" THEN -1 ELSE 1
      ds == DigitPrefix(IF signed THEN Tail(s) ELSE s)
  IN IF ds = <<>> THEN NaN ELSE [nan |-> FALSE, value |-> sign * DecimalValue(ds)]

\* x || 1 for a number x: NaN and 0 are falsy.
OrOne(x) == IF x.nan \/ x.value = 0 THEN 1 ELSE x.value

\* What can be typed into the max-size field: "", "0", "-5", "abc", "3",
\* "2.5", " 7", "+4" and "12".
MaxSizeInputs ==
  { <<>>, <<"0">>, <<"-", "5">>, <<"a", "b", "c">>, <<"3">>, <<"2", ".", "5">>,
    <<" ", "7">>, <<"+", "4">>, <<"1", "2">> }

SetMaxSize(n, maxSize) == WithData(n, "maxSize", maxSize)

OnChangeMaxSize(str) ==
  /\ FileUploadPanelShown
  /\ LET node == FindNode(nodes, selectedNodeId)
     IN nodes' = [i \in DOMAIN nodes |->
                    IF nodes[i].id = node.id
                    THEN SetMaxSize(nodes[i], OrOne(parseInt(str)))
                    ELSE nodes[i]]
  /\ UNCHANGED <<edges, selectedNodeId>>
  /\ deleted' = Null
  /\ NoSave

\* Labels typed into the label field.
Labels == {"Docs"}

OnChangeLabel(label) ==
  /\ FileUploadPanelShown
  /\ LET node == FindNode(nodes, selectedNodeId)
     IN nodes' = [i \in DOMAIN nodes |->
                    IF nodes[i].id = node.id
                    THEN WithData(nodes[i], "label", label)
                    ELSE nodes[i]]
  /\ UNCHANGED <<edges, selectedNodeId>>
  /\ deleted' = Null
  /\ NoSave

OnChangeMultiple(checked) ==
  /\ FileUploadPanelShown
  /\ LET node == FindNode(nodes, selectedNodeId)
     IN nodes' = [i \in DOMAIN nodes |->
                    IF nodes[i].id = node.id
                    THEN WithData(nodes[i], "multiple", checked)
                    ELSE nodes[i]]
  /\ UNCHANGED <<edges, selectedNodeId>>
  /\ deleted' = Null
  /\ NoSave

\* String.prototype.trim on a sequence of characters.
RECURSIVE TrimEnd(_)
TrimEnd(str) ==
  IF str # <<>> /\ str[Len(str)] \in WhiteSpace
  THEN TrimEnd(SubSeq(str, 1, Len(str) - 1))
  ELSE str

trim(str) == TrimEnd(TrimStart(str))

Includes(list, x) == \E k \in DOMAIN list : list[k] = x

\* What the "Add new type" field can hold when Add is clicked or Enter is
\* pressed: "", " ", ".a", " .a " and ".b".  (The field is the panel's local
\* state newFileType, set by typing; the handler reads it and empties it.)
FileTypeInputs ==
  { <<>>, <<" ">>, <<".", "a">>, <<" ", ".", "a", " ">>, <<".", "b">> }

\* Mutant: the type is appended without looking whether it is in the list.
AddFileType_NoIncludes(newFileType) ==
  /\ FileUploadPanelShown
  /\ LET node == FindNode(nodes, selectedNodeId)
         currentTypes == node.data.allowedTypes
     IN IF trim(newFileType) # <<>>
        THEN nodes' = [i \in DOMAIN nodes |->
                         IF nodes[i].id = node.id
                         THEN WithData(nodes[i], "allowedTypes",
                                       Append(currentTypes, trim(newFileType)))
                         ELSE nodes[i]]
        ELSE UNCHANGED nodes
  /\ UNCHANGED <<edges, selectedNodeId>>
  /\ deleted' = Null
  /\ NoSave

AddFileType(newFileType) ==
  /\ FileUploadPanelShown
  /\ LET node == FindNode(nodes, selectedNodeId)
         currentTypes == node.data.allowedTypes
     IN IF trim(newFileType) # <<>> /\ ~Includes(currentTypes, trim(newFileType))
        THEN nodes' = [i \in DOMAIN nodes |->
                         IF nodes[i].id = node.id
                         THEN WithData(nodes[i], "allowedTypes",
                                       Append(currentTypes, trim(newFileType)))
                         ELSE nodes[i]]
        ELSE UNCHANGED nodes
  /\ UNCHANGED <<edges, selectedNodeId>>
  /\ deleted' = Null
  /\ NoSave

\* The x button of the k-th type shown for the selected node.
RemoveFileType(k) ==
  /\ FileUploadPanelShown
  /\ LET node == FindNode(nodes, selectedNodeId)
     IN /\ k \in DOMAIN node.data.allowedTypes
        /\ LET typeToRemove == node.data.allowedTypes[k]
           IN nodes' = [i \in DOMAIN nodes |->
                          IF nodes[i].id = node.id
                          THEN WithData(nodes[i], "allowedTypes",
                                        SelectSeq(nodes[i].data.allowedTypes,
                                                  LAMBDA t : t # typeToRemove))
                          ELSE nodes[i]]
  /\ UNCHANGED <<edges, selectedNodeId>>
  /\ deleted' = Null
  /\ NoSave

(* ---------------------------------------------------------------------- *)
(* SaveButton                                                              *)
(* ---------------------------------------------------------------------- *)
\* result.message || 'Validation failed.'
MessageOf(r) ==
  IF "message" \in DOMAIN r /\ Truthy(r.message) THEN r.message
  ELSE <<"Validation failed.">>

\* Mutant: the payload is tidied after validation (edges at a missing node
\* are left out of what is logged).
OnSave_TidiesPayload ==
  LET r == validateBeforeSave(nodes, edges)
  IN /\ result' = r
     /\ deleted' = Null
     /\ call' = NoCall
     /\ IF ~r.ok
        THEN /\ error' = MessageOf(r)
             /\ success' = Null
             /\ payload' = NoPayload
             /\ UNCHANGED timers
        ELSE /\ timers < MaxTimers
             /\ error' = Null
             /\ payload' = [nodes |-> nodes,
                             edges |-> SelectSeq(edges, LAMBDA e : HasNode(nodes, e.source)
                                                                   /\ HasNode(nodes, e.target))]
             /\ success' = SuccessMessage
             /\ timers' = timers + 1
     /\ UNCHANGED store

\* Mutant: the messages of the previous attempt are not cleared first.
OnSave_KeepsMessages ==
  LET r == validateBeforeSave(nodes, edges)
  IN /\ result' = r
     /\ deleted' = Null
     /\ call' = NoCall
     /\ IF ~r.ok
        THEN /\ error' = MessageOf(r)
             /\ payload' = NoPayload
             /\ UNCHANGED <<success, timers>>
        ELSE /\ timers < MaxTimers
             /\ payload' = [nodes |-> nodes, edges |-> edges]
             /\ success' = SuccessMessage
             /\ timers' = timers + 1
             /\ UNCHANGED error
     /\ UNCHANGED store

\* Mutant: the early return after setError is missing.
OnSave_NoReturn ==
  LET r == validateBeforeSave(nodes, edges)
  IN /\ result' = r
     /\ deleted' = Null
     /\ call' = NoCall
     /\ timers < MaxTimers
     /\ error' = (IF ~r.ok THEN MessageOf(r) ELSE Null)
     /\ payload' = [nodes |-> nodes, edges |-> edges]
     /\ success' = SuccessMessage
     /\ timers' = timers + 1
     /\ UNCHANGED store

\* Mutant: a save also clears the selection.
OnSave_ClearsSelection ==
  LET r == validateBeforeSave(nodes, edges)
  IN /\ result' = r
     /\ deleted' = Null
     /\ call' = NoCall
     /\ IF ~r.ok
        THEN /\ error' = MessageOf(r)
             /\ success' = Null
             /\ payload' = NoPayload
             /\ UNCHANGED timers
        ELSE /\ timers < MaxTimers
             /\ error' = Null
             /\ payload' = [nodes |-> nodes, edges |-> edges]
             /\ success' = SuccessMessage
             /\ timers' = timers + 1
     /\ selectedNodeId' = Null
     /\ UNCHANGED <<nodes, edges>>

\* onSave in a run that holds at most max pending timers.
Save(max) ==
  LET r == validateBeforeSave(nodes, edges)
  IN /\ result' = r
     /\ deleted' = Null
     /\ call' = NoCall
     /\ IF ~r.ok
        THEN /\ error' = MessageOf(r)
             /\ success' = Null
             /\ payload' = NoPayload
             /\ UNCHANGED timers
        ELSE /\ timers < max
             /\ error' = Null
             /\ payload' = [nodes |-> nodes, edges |-> edges]
             /\ success' = SuccessMessage
             /\ timers' = timers + 1
     /\ UNCHANGED store

OnSave == Save(MaxTimers)

\* The callback of setTimeout(() => setSuccess(null), 3000).  Every timer has
\* the same delay, so the pending timers fire in the order of their saves
\* and the timer of the latest successful save is the last to fire.
TimerFire ==
  /\ timers > 0
  /\ timers' = timers - 1
  /\ deleted' = Null
  /\ call' = NoCall
  /\ success' = Null
  /\ result' = NoResult
  /\ payload' = NoPayload
  /\ UNCHANGED <<store, error>>

(* ---------------------------------------------------------------------- *)
(* Specifications                                                          *)
(* ---------------------------------------------------------------------- *)
Next ==
  \/ \E type \in DropTypes, timestamp \in Timestamps : OnDrop(type, timestamp)
  \/ \E removed \in SUBSET IdsOf(nodes) : OnNodesChange(removed)
  \/ \E removed \in SUBSET IdsOf(edges) : OnEdgesChange(removed)
  \/ \E source, target \in IdsOf(nodes) \cup {Null} : OnConnect(source, target)
  \/ \E i \in DOMAIN nodes : OnNodeClick(i)
  \/ OnPaneClick
  \/ \E key \in Keys : OnKeyDown(key)
  \/ \E text \in Texts : OnChangeText(text)
  \/ OnDeleteNode
  \/ FileUploadOnDeleteNode
  \/ OnSave
  \/ TimerFire

Spec == Init /\ [][Next]_vars

\* The handlers the user reaches without the canvas library acting on its own:
\* palette drop, connect, clicks, the two settings panels and the save button.
NextPanel ==
  \/ \E type \in DropTypes, timestamp \in Timestamps : OnDrop(type, timestamp)
  \/ \E source, target \in IdsOf(nodes) \cup {Null} : OnConnect(source, target)
  \/ \E i \in DOMAIN nodes : OnNodeClick(i)
  \/ OnPaneClick
  \/ \E text \in Texts : OnChangeText(text)
  \/ OnDeleteNode
  \/ FileUploadOnDeleteNode
  \/ OnSave
  \/ TimerFire

SpecPanel == Init /\ [][NextPanel]_vars

\* Drops, connects and saves only, with room for CMaxEdges edges: the runs
\* in which one node is connected more than once.
OnConnectMany(source, target) == Connect(source, target, CMaxEdges)

NextConnect ==
  \/ \E type \in DropTypes, timestamp \in Timestamps : OnDrop(type, timestamp)
  \/ \E source, target \in IdsOf(nodes) \cup {Null} : OnConnectMany(source, target)
  \/ OnSave
  \/ TimerFire

SpecConnect == Init /\ [][NextConnect]_vars

(* ---------------------------------------------------------------------- *)
(* The validator on arbitrary collections: setNodes and setEdges accept    *)
(* any collection, so the snapshot that onSave validates is drawn from all *)
(* node and edge sequences over the ids, up to VMaxNodes and VMaxEdges.    *)
(* ---------------------------------------------------------------------- *)
SeqsUpTo(S, n) == UNION {[1..k -> S] : k \in 0..n}

InputIds == {<<"text", 1>>} \cup {<<type, ts>> : type \in {"text", "fileUpload"}, ts \in Timestamps}

InputNode(id) == IF id = <<"text", 1>> THEN InitialNodes[1] ELSE createNode(id[1], DropPosition, id[2])

InputNodes == {InputNode(id) : id \in InputIds}

InputEdges == {NewEdge(source, target) : source \in InputIds, target \in InputIds}

InitValidate ==
  /\ nodes \in SeqsUpTo(InputNodes, VMaxNodes)
  /\ edges \in SeqsUpTo(InputEdges, VMaxEdges)
  /\ selectedNodeId = Null
  /\ Feedback0

NextValidate ==
  \/ OnSave
  \/ TimerFire

SpecValidate == InitValidate /\ [][NextValidate]_vars

\* Drops, clicks and the two settings panels with the max-size field: the
\* runs that edit the configuration of file-upload nodes.
NextUpload ==
  \/ \E type \in DropTypes, timestamp \in Timestamps : OnDrop(type, timestamp)
  \/ \E i \in DOMAIN nodes : OnNodeClick(i)
  \/ OnPaneClick
  \/ \E str \in MaxSizeInputs : OnChangeMaxSize(str)
  \/ OnDeleteNode
  \/ FileUploadOnDeleteNode

SpecUpload == Init /\ [][NextUpload]_vars

\* Drops, clicks and every field of the two settings panels: the runs that
\* edit the configuration of the nodes.
NextSettings ==
  \/ \E type \in DropTypes, timestamp \in Timestamps : OnDrop(type, timestamp)
  \/ \E i \in DOMAIN nodes : OnNodeClick(i)
  \/ OnPaneClick
  \/ \E text \in Texts : OnChangeText(text)
  \/ \E label \in Labels : OnChangeLabel(label)
  \/ \E str \in MaxSizeInputs : OnChangeMaxSize(str)
  \/ \E checked \in BOOLEAN : OnChangeMultiple(checked)
  \/ \E newFileType \in FileTypeInputs : AddFileType(newFileType)
  \/ \E k \in 1..Cardinality(FileTypeInputs) : RemoveFileType(k)

SpecSettings == Init /\ [][NextSettings]_vars

\* Drops, connects, clicks and saves with room for TMaxTimers pending
\* timers: the runs in which a save is made while the timer of an earlier
\* one is pending.
OnSaveAgain == Save(TMaxTimers)

NextTimers ==
  \/ \E type \in DropTypes, timestamp \in Timestamps : OnDrop(type, timestamp)
  \/ \E source, target \in IdsOf(nodes) \cup {Null} : OnConnect(source, target)
  \/ \E i \in DOMAIN nodes : OnNodeClick(i)
  \/ OnPaneClick
  \/ OnSaveAgain
  \/ TimerFire

SpecTimers == Init /\ [][NextTimers]_vars

\* The store alone: its three operations called in any order with any
\* collection of up to SMaxNodes nodes or SMaxEdges edges and any id or null.
NextStore ==
  \/ \E n \in SeqsUpTo(InputNodes, SMaxNodes) : setNodes(n)
  \/ \E e \in SeqsUpTo(InputEdges, SMaxEdges) : setEdges(e)
  \/ \E id \in InputIds \cup {Null} : setSelectedNodeId(id)

SpecStore == Init /\ [][NextStore]_vars

(* ---------------------------------------------------------------------- *)
(* Vocabulary of the properties                                            *)
(* ---------------------------------------------------------------------- *)
\* The last step was onSave: result holds the verdict it got.
Called == "ok" \in DOMAIN result

Rejected == Called /\ ~result.ok

Accepted == Called /\ result.ok

\* Number of edges whose source is id.
OutDegree(es, id) == Cardinality({j \in DOMAIN es : es[j].source = id})

\* Positions of the nodes that are the source of no edge.
Terminal(ns, es) == {i \in DOMAIN ns : OutDegree(es, ns[i].id) = 0}

\* Their ids, in the order of the node collection.
TerminalIds(ns, es) ==
  LET T == Terminal(ns, es)
      at(k) == CHOOSE i \in T : Cardinality({j \in T : j < i}) = k - 1
  IN [k \in 1..Cardinality(T) |-> ns[at(k)].id]

IdSeq(seq) == [i \in DOMAIN seq |-> seq[i].id]

Ends(es) == [j \in DOMAIN es |-> <<es[j].source, es[j].target>>]

IsDangling(ns, e) == e.source \notin IdsOf(ns) \/ e.target \notin IdsOf(ns)

WithoutDangling(ns, es) == SelectSeq(es, LAMBDA e : ~IsDangling(ns, e))

X == <<"text", 1>>

Y == <<"text", 2>>

Z == <<"fileUpload", 2>>

\* One of the three explicit deletions runs and filters the node collection.
ExplicitDelete ==
  \/ OnDeleteNode
  \/ FileUploadOnDeleteNode
  \/ (OnKeyDown("Delete") /\ Truthy(selectedNodeId))

\* ns2 is ns with the element at one position, which carries id, taken out.
RemovesOne(ns, ns2, id) ==
  \E i \in DOMAIN ns :
    /\ ns[i].id = id
    /\ ns2 = [k \in 1..(Len(ns) - 1) |-> IF k < i THEN ns[k] ELSE ns[k + 1]]

\* ns2 is ns without the elements that carry id, the others in their order.
RemovesAllWith(ns, ns2, id) ==
  LET keep == {i \in DOMAIN ns : ns[i].id # id}
      at(k) == CHOOSE i \in keep : Cardinality({j \in keep : j < i}) = k - 1
  IN ns2 = [k \in 1..Cardinality(keep) |-> ns[at(k)]]

(* ---------------------------------------------------------------------- *)
(* Properties of the validator (SpecValidate)                              *)
(* ---------------------------------------------------------------------- *)

\* C1: on a snapshot of 2 or more nodes the verdict is ok exactly when at most
\* one node is the source of no edge; the chain X->Y, Y->Z over {X,Y,Z} is
\* accepted, {X,Y,Z} with X->Y alone is rejected, {X,Y} without edges is
\* rejected and {X,Y} with X->Y is accepted.
C1_ValidIffAtMostOneTerminal ==
  Called =>
    /\ Len(nodes) >= 2 => (result.ok <=> Cardinality(Terminal(nodes, edges)) <= 1)
    /\ (IdSeq(nodes) = <<X, Y, Z>> /\ Ends(edges) = << <<X, Y>>, <<Y, Z>> >>) => result.ok
    /\ (IdSeq(nodes) = <<X, Y, Z>> /\ Ends(edges) = << <<X, Y>> >>) => ~result.ok
    /\ (IdSeq(nodes) = <<X, Y>> /\ edges = <<>>) => ~result.ok
    /\ (IdSeq(nodes) = <<X, Y>> /\ Ends(edges) = << <<X, Y>> >>) => result.ok

\* C1 witness: the three-node chain has been validated and accepted.
C1_Witness ==
  /\ Accepted
  /\ IdSeq(nodes) = <<X, Y, Z>>
  /\ Ends(edges) = << <<X, Y>>, <<Y, Z>> >>

\* C2: a snapshot of 0 or 1 nodes is accepted whatever its edges are, also
\* when their endpoints are no nodes; the store's initial state is accepted.
C2_TrivialFlowValid ==
  Called =>
    /\ Len(nodes) <= 1 => (result.ok /\ DOMAIN result = {"ok"})
    /\ (nodes = InitialNodes /\ edges = <<>>) => result.ok

\* C2 witness: a one-node snapshot with an edge between two ids that are no
\* nodes has been validated.
C2_Witness ==
  /\ Called
  /\ Len(nodes) = 1
  /\ \E j \in DOMAIN edges :
       edges[j].source \notin IdsOf(nodes) /\ edges[j].target \notin IdsOf(nodes)

\* C5: a negative verdict lists the ids of exactly the nodes that are the
\* source of no edge, in the order of the node collection, at least two of
\* them, and its message states that number and 'At most 1 is allowed'; a
\* positive verdict has neither a message nor an id list.
C5_VerdictShape ==
  /\ Rejected =>
       /\ DOMAIN result = {"ok", "message", "nodesWithNoOutgoing"}
       /\ result.nodesWithNoOutgoing = TerminalIds(nodes, edges)
       /\ Len(result.nodesWithNoOutgoing) >= 2
       /\ result.message =
            <<"There are ", Len(result.nodesWithNoOutgoing),
              " nodes with empty target handles. At most 1 is allowed.">>
  /\ Accepted => DOMAIN result = {"ok"}

\* C5 witness: {X,Y,Z} with X->Y alone has been rejected with the list [Y, Z].
C5_Witness ==
  /\ Rejected
  /\ IdSeq(nodes) = <<X, Y, Z>>
  /\ Ends(edges) = << <<X, Y>> >>
  /\ result.nodesWithNoOutgoing = <<Y, Z>>

(* ---------------------------------------------------------------------- *)
(* Properties of the editor (Spec)                                         *)
(* ---------------------------------------------------------------------- *)

\* C3: onSave logs the payload {nodes, edges} and shows the success message
\* only when the verdict on the current snapshot is ok; on a negative verdict
\* it logs nothing and shows the verdict's message as the error.
C3_PayloadOnlyWhenValid ==
  /\ payload # NoPayload =>
       /\ Accepted
       /\ Len(nodes) <= 1 \/ Cardinality(Terminal(nodes, edges)) <= 1
       /\ payload = [nodes |-> nodes, edges |-> edges]
       /\ success = SuccessMessage
       /\ error = Null
  /\ Rejected =>
       /\ payload = NoPayload
       /\ error = result.message
       /\ success = Null
  /\ Accepted => payload # NoPayload

\* C3 witness: a save has been rejected: two nodes, neither the source of an
\* edge, the error shown and nothing logged.
C3_Witness ==
  /\ Rejected
  /\ Len(nodes) = 2
  /\ error # Null
  /\ payload = NoPayload

\* C4: an edge whose source or target is no node of the collection counts for
\* no node: the verdict is the verdict on the snapshot without those edges.
C4_DanglingEdgesIgnored ==
  Called => result = validateBeforeSave(nodes, WithoutDangling(nodes, edges))

\* C6: a step in which onSave runs, accepted or rejected, leaves nodes, edges
\* and selectedNodeId as they were.
C6_SaveLeavesStore ==
  [][("ok" \in DOMAIN result') =>
       (nodes' = nodes /\ edges' = edges /\ selectedNodeId' = selectedNodeId)]_vars

\* C6 witness: a save has been rejected while a node was selected and an edge
\* was in the store.
C6_Witness ==
  /\ Rejected
  /\ selectedNodeId # Null
  /\ Len(edges) > 0

\* C7: selectedNodeId is null or the id of a node of the node collection.
C7_SelectionNamesNode ==
  selectedNodeId = Null \/ HasNode(nodes, selectedNodeId)

\* C8: an explicit deletion of the selected node takes exactly that one node
\* out of the collection and sets selectedNodeId to null; a step that removes
\* only other nodes leaves selectedNodeId as it was.
C8_DeleteSelected ==
  [][/\ (ExplicitDelete /\ HasNode(nodes, selectedNodeId)) =>
          (RemovesOne(nodes, nodes', selectedNodeId) /\ selectedNodeId' = Null)
     /\ (/\ Len(nodes') < Len(nodes)
         /\ \A i \in DOMAIN nodes : nodes[i].id = selectedNodeId => HasNode(nodes', nodes[i].id))
          => selectedNodeId' = selectedNodeId]_vars

\* C9: when onSave runs, the source and the target of every edge are ids of
\* nodes of the node collection.
C9_NoDanglingEdgeAtSave ==
  Called => \A j \in DOMAIN edges : ~IsDangling(nodes, edges[j])

\* C10: an explicit deletion takes the nodes with the selected id out of the
\* node collection, keeps the others in their order, and leaves the edge
\* collection as it was, edges at the deleted node included.
C10_DeleteKeepsEdges ==
  [][ExplicitDelete =>
       /\ edges' = edges
       /\ ~HasNode(nodes', selectedNodeId)
       /\ RemovesAllWith(nodes, nodes', selectedNodeId)]_vars

\* C10 witness: the last step deleted a node and an edge at that node is still
\* in the store.
C10_Witness ==
  /\ deleted # Null
  /\ ~HasNode(nodes, deleted)
  /\ \E j \in DOMAIN edges : edges[j].source = deleted \/ edges[j].target = deleted

(* ---------------------------------------------------------------------- *)
(* Connects and drops                                                      *)
(* ---------------------------------------------------------------------- *)
\* C11: after any sequence of connects, no two edges of the store (at two
\* different positions of the collection) have the same id.
C11_EdgeIdsDistinct ==
  \A i, j \in DOMAIN edges : i # j => edges[i].id # edges[j].id

\* C12: after any sequence of palette drops, no two nodes of the store (at
\* two different positions of the collection) have the same id.
C12_NodeIdsDistinct ==
  \A i, j \in DOMAIN nodes : i # j => nodes[i].id # nodes[j].id

(* ---------------------------------------------------------------------- *)
(* The store operations                                                    *)
(* ---------------------------------------------------------------------- *)
Component(op) ==
  CASE op = "setNodes" -> nodes
    [] op = "setEdges" -> edges
    [] op = "setSelectedNodeId" -> selectedNodeId

StoreOps == {"setNodes", "setEdges", "setSelectedNodeId"}

\* C13: each store operation accepts every argument (nothing is validated,
\* nothing fails), sets its own component to the argument and leaves the
\* other two components as they were; so after any sequence of calls each
\* component that has been set holds the argument of the last call of its
\* operation.
C13_StoreOpsReplace ==
  /\ [](/\ \A n \in SeqsUpTo(InputNodes, SMaxNodes) : ENABLED setNodes(n)
        /\ \A e \in SeqsUpTo(InputEdges, SMaxEdges) : ENABLED setEdges(e)
        /\ \A id \in InputIds \cup {Null} : ENABLED setSelectedNodeId(id))
  /\ [][/\ \A op \in DOMAIN call'.args : Component(op)' = call'.args[op]
        /\ \A op \in StoreOps \ {call'.op} : Component(op)' = Component(op)]_vars

\* All three operations have been called, each with an argument other than
\* the initial value of its component, and setEdges before the last call.
C13_Witness ==
  /\ DOMAIN call.args = StoreOps
  /\ call.op = "setNodes"
  /\ nodes # InitialNodes /\ nodes # <<>>
  /\ edges # <<>>
  /\ selectedNodeId # Null

(* ---------------------------------------------------------------------- *)
(* Save: payload, feedback, graph shape                                    *)
(* ---------------------------------------------------------------------- *)
\* C15: a save that hands a payload on hands on exactly the node and edge
\* collections that were in the store when the save began; these are the
\* collections its validation ran on and accepted, and the store still holds
\* them, unchanged, when the payload is handed on.
C15_PayloadIsValidatedSnapshot ==
  [][payload' # NoPayload =>
       /\ payload' = [nodes |-> nodes, edges |-> edges]
       /\ result' = validateBeforeSave(nodes, edges)
       /\ result'.ok
       /\ store' = store]_vars

\* A successful save of a flow of two nodes and an edge.
C15_Witness ==
  /\ Accepted
  /\ payload # NoPayload
  /\ Len(payload.nodes) = 2
  /\ Len(payload.edges) = 1

\* There is a directed cycle along the edges es through nodes of ns: some
\* node reaches itself in one or more hops, each hop an edge whose two ends
\* are nodes of ns.
Hop(ns, es, S) ==
  {es[j].target : j \in {k \in DOMAIN es : es[k].source \in S /\ HasNode(ns, es[k].target)}}

RECURSIVE ReachIn(_, _, _, _)
ReachIn(ns, es, S, k) ==
  IF k = 0 THEN {}
  ELSE LET T == Hop(ns, es, S) IN T \cup ReachIn(ns, es, T, k - 1)

HasCycle(ns, es) ==
  \E id \in IdsOf(ns) : id \in ReachIn(ns, es, {id}, Len(ns))

\* C16: after any sequence of connects, every node is the source of at most
\* one edge of the store.
C16_OneOutgoingEdge ==
  \A i \in DOMAIN nodes : OutDegree(edges, nodes[i].id) <= 1

\* C17: a save of a flow that has a directed cycle is rejected and hands on
\* no payload.
C17_NoCycleSaved ==
  (Called /\ HasCycle(nodes, edges)) => (Rejected /\ payload = NoPayload)

\* C18: a feedback message of a save, error or success, is cleared by the
\* 3-second timer with no further user action: whenever a message is shown
\* a timer is pending, and once no timer is pending no message is shown.
C18_MessageClearedByTimer ==
  timers = 0 => (error = Null /\ success = Null)

\* C19: onConnect never adds an edge from a node to itself; every edge of
\* the store joins two different nodes.
C19_NoSelfLoop ==
  \A j \in DOMAIN edges : edges[j].source # edges[j].target

(* ---------------------------------------------------------------------- *)
(* File-upload settings                                                    *)
(* ---------------------------------------------------------------------- *)
\* C20: after any sequence of settings edits, whatever is typed into the
\* max-size field, the maxSize of every file-upload node is an integer of at
\* least 1.
C20_MaxSizeAtLeastOne ==
  \A i \in DOMAIN nodes :
    nodes[i].type = "fileUpload" =>
      (nodes[i].data.maxSize \in Int /\ nodes[i].data.maxSize >= 1)

(* ---------------------------------------------------------------------- *)
(* Node configuration                                                      *)
(* ---------------------------------------------------------------------- *)
TextShape(n) ==
  /\ DOMAIN n.data = {"text", "type"}
  /\ n.data.type = "text"

FileUploadShape(n) ==
  /\ DOMAIN n.data = {"label", "allowedTypes", "maxSize", "multiple", "type"}
  /\ n.data.type = "fileUpload"

\* C21: after any sequence of drops and settings edits, the data of every
\* node has the shape of the node's type: a text node has exactly the fields
\* text and type ('text'), a fileUpload node exactly the fields label,
\* allowedTypes, maxSize, multiple and type ('fileUpload').
C21_ConfigMatchesKind ==
  \A i \in DOMAIN nodes :
    /\ nodes[i].type = "text" => TextShape(nodes[i])
    /\ nodes[i].type = "fileUpload" => FileUploadShape(nodes[i])

\* A text node whose text has been edited next to a fileUpload node whose
\* label, size limit, multiple flag and type list have all been edited.
C21_Witness ==
  /\ Len(nodes) = 2
  /\ nodes[1].type = "text" /\ nodes[1].data.text = "Hi"
  /\ nodes[2].type = "fileUpload"
  /\ nodes[2].data.label = "Docs"
  /\ nodes[2].data.maxSize = 3
  /\ nodes[2].data.multiple
  /\ Len(nodes[2].data.allowedTypes) = 2

\* A step of one of the settings fields.
SettingsEdit ==
  \/ \E text \in Texts : OnChangeText(text)
  \/ \E label \in Labels : OnChangeLabel(label)
  \/ \E str \in MaxSizeInputs : OnChangeMaxSize(str)
  \/ \E checked \in BOOLEAN : OnChangeMultiple(checked)
  \/ \E newFileType \in FileTypeInputs : AddFileType(newFileType)
  \/ \E k \in 1..Cardinality(FileTypeInputs) : RemoveFileType(k)

\* C22: a settings edit changes nothing but the data of the nodes whose id
\* is the selected id: the collection keeps its length and order, every node
\* keeps its id, type and position, every node with another id is unchanged,
\* and edges and selectedNodeId are unchanged.
C22_EditChangesOnlySelectedConfig ==
  [][SettingsEdit =>
       /\ Len(nodes') = Len(nodes)
       /\ \A i \in DOMAIN nodes :
            /\ nodes'[i] = [nodes[i] EXCEPT !.data = nodes'[i].data]
            /\ nodes[i].id # selectedNodeId => nodes'[i] = nodes[i]
       /\ edges' = edges
       /\ selectedNodeId' = selectedNodeId]_vars

\* The selected fileUpload node has been edited and the text node before it
\* is as it was created.
C22_Witness ==
  /\ Len(nodes) = 2
  /\ selectedNodeId = nodes[2].id
  /\ nodes[2].type = "fileUpload"
  /\ nodes[2].data.label = "Docs"
  /\ nodes[2].data.allowedTypes # <<>>
  /\ nodes[1] = InitialNodes[1]

IsBlank(t) == trim(t) = <<>>

\* The allowed types of the node the file-upload panel shows.
ShownTypes == FindNode(nodes, selectedNodeId).data.allowedTypes

IsSetLike(list) ==
  /\ \A j, k \in DOMAIN list : j # k => list[j] # list[k]
  /\ \A k \in DOMAIN list : ~IsBlank(list[k])

\* C23: the allowedTypes of every fileUpload node has no entry twice and no
\* blank entry; addFileType with an input that is blank, or whose trimmed
\* form is already in the list, leaves the node collection unchanged; after
\* removeFileType the type removed does not occur in the list.
C23_AllowedTypesIsSet ==
  /\ [](\A i \in DOMAIN nodes :
          nodes[i].type = "fileUpload" => IsSetLike(nodes[i].data.allowedTypes))
  /\ [][/\ \A newFileType \in FileTypeInputs :
             (/\ AddFileType(newFileType)
              /\ (IsBlank(newFileType) \/ Includes(ShownTypes, trim(newFileType))))
             => nodes' = nodes
        /\ \A k \in 1..Cardinality(FileTypeInputs) :
             RemoveFileType(k) => ~Includes(ShownTypes', ShownTypes[k])]_vars

\* Both types have been added to the selected node, ".b" before ".a".
C23_Witness ==
  /\ FileUploadPanelShown
  /\ ShownTypes = << <<".", "b">>, <<".", "a">> >>

(* ---------------------------------------------------------------------- *)
(* What the verdict depends on                                             *)
(* ---------------------------------------------------------------------- *)
\* A snapshot reduced to its node ids, in order, and its edge sources, in
\* order: every other field is given one fixed value.
BareNodes(ns) ==
  [i \in DOMAIN ns |->
     [id |-> ns[i].id, type |-> "none", position |-> [x |-> 0, y |-> 0],
      data |-> [type |-> "none"]]]

BareEdges(es) ==
  [j \in DOMAIN es |->
     [id |-> <<"edge">>, source |-> es[j].source, target |-> Null,
      sourceHandle |-> "none", targetHandle |-> "none"]]

Sources(es) == [j \in DOMAIN es |-> es[j].source]

\* C24: the verdict is that of the node ids and the edge sources alone, so
\* two snapshots with the same node ids in the same order and the same edge
\* sources have the same verdict, whatever the positions, types and data of
\* the nodes, the targets of the edges and the selection; no step that keeps
\* the node ids and the edge sources (an edit of a settings field, a click)
\* changes the verdict.
C24_VerdictOfIdsAndSources ==
  /\ [](validateBeforeSave(nodes, edges) =
          validateBeforeSave(BareNodes(nodes), BareEdges(edges)))
  /\ [][(IdSeq(nodes') = IdSeq(nodes) /\ Sources(edges') = Sources(edges))
          => validateBeforeSave(nodes', edges') = validateBeforeSave(nodes, edges)]_vars

\* A save of two nodes, one selected and with its text edited.
C24_Witness ==
  /\ Called
  /\ Len(nodes) = 2
  /\ selectedNodeId # Null
  /\ \E i \in DOMAIN nodes :
       /\ nodes[i].id = selectedNodeId
       /\ nodes[i].type = "text"
       /\ nodes[i].data.text = "Hi"

(* ---------------------------------------------------------------------- *)
(* Palette drops                                                           *)
(* ---------------------------------------------------------------------- *)
DefaultData(type) ==
  IF type = "text"
  THEN [text |-> "New message", type |-> "text"]
  ELSE [label |-> "Upload Files", allowedTypes |-> <<>>, maxSize |-> 5,
        multiple |-> FALSE, type |-> "fileUpload"]

\* C25: a drop of kind 'text' or 'fileUpload' appends exactly one node of
\* that kind, with the default data of the kind, after the existing nodes,
\* which are unchanged; a drop of an empty or unsupported kind leaves the
\* node collection unchanged; no drop changes the edges or the selection.
C25_DropAppendsDefaultNode ==
  [][\A type \in DropTypes, timestamp \in Timestamps :
       OnDrop(type, timestamp) =>
         /\ IF type \in {"text", "fileUpload"}
            THEN /\ Len(nodes') = Len(nodes) + 1
                 /\ SubSeq(nodes', 1, Len(nodes)) = nodes
                 /\ nodes'[Len(nodes')].type = type
                 /\ nodes'[Len(nodes')].data = DefaultData(type)
            ELSE nodes' = nodes
         /\ edges' = edges
         /\ selectedNodeId' = selectedNodeId]_vars

\* A fileUpload node with its default data dropped after a text node whose
\* text had been edited, with an edge in the store and a node selected.
C25_Witness ==
  /\ Len(nodes) = 2
  /\ nodes[1].type = "text" /\ nodes[1].data.text = "Hi"
  /\ nodes[2].type = "fileUpload" /\ nodes[2].data = DefaultData("fileUpload")
  /\ edges # <<>>
  /\ selectedNodeId # Null

(* ---------------------------------------------------------------------- *)
(* Save feedback                                                           *)
(* ---------------------------------------------------------------------- *)
\* C26: the success message of a save stays displayed until the timer that
\* this save started fires or another save is attempted.  (error = Null with
\* a timer pending says that the latest attempt was a successful save; its
\* timer is the last to fire, so it is pending as long as any timer is.)
C26_SuccessStaysUntilOwnTimer ==
  (timers > 0 /\ error = Null) => success = SuccessMessage

(* ---------------------------------------------------------------------- *)
(* Deleting nodes and adding edges                                         *)
(* ---------------------------------------------------------------------- *)
\* C27: deleting a node never turns an accepted flow into a rejected one: if
\* the verdict of (nodes, edges) is ok, so is the verdict of the nodes left
\* by deleting any one node, with the same edges.
C27_DeleteKeepsAccepted ==
  validateBeforeSave(nodes, edges).ok =>
    \A i \in DOMAIN nodes : validateBeforeSave(RemoveId(nodes, nodes[i].id), edges).ok

\* An accepted flow of three nodes in a chain: deleting the middle node
\* leaves an edge to a node that is gone.
C27_Witness ==
  /\ Accepted
  /\ Len(nodes) = 3
  /\ Len(edges) = 2
  /\ edges[1].source = nodes[1].id /\ edges[1].target = nodes[2].id
  /\ edges[2].source = nodes[2].id /\ edges[2].target = nodes[3].id
  /\ nodes[1].id # nodes[2].id /\ nodes[2].id # nodes[3].id /\ nodes[1].id # nodes[3].id

\* C28: a connect never turns an accepted flow into a rejected one, and the
\* number of nodes without an outgoing edge after a connect is at most what
\* it was before.
C28_ConnectKeepsAccepted ==
  [][\A source, target \in IdsOf(nodes) \cup {Null} :
       OnConnectMany(source, target) =>
         /\ validateBeforeSave(nodes, edges).ok => validateBeforeSave(nodes', edges').ok
         /\ Cardinality(Terminal(nodes', edges')) <= Cardinality(Terminal(nodes, edges))]_vars

\* A second edge from a node that already had one, in a flow of two nodes
\* that a save then accepts.
C28_Witness ==
  /\ Accepted
  /\ Len(nodes) = 2
  /\ Len(edges) = 2
  /\ edges[1].source = edges[2].source
  /\ edges[1].source # edges[1].target

(* ---------------------------------------------------------------------- *)
(* Requests without a selected node                                        *)
(* ---------------------------------------------------------------------- *)
\* The selection identifies no node of the collection.
NoNodeSelected == selectedNodeId = Null \/ ~HasNode(nodes, selectedNodeId)

\* A step of a delete request or of an edit of a settings field.
DeleteOrEdit ==
  \/ \E key \in Keys : OnKeyDown(key)
  \/ OnDeleteNode
  \/ FileUploadOnDeleteNode
  \/ SettingsEdit

\* C29: a delete or edit request made while selectedNodeId is null or names
\* no node of the collection removes and alters no node: the node collection
\* and the edge collection are the same afterwards.
C29_NoTargetNoChange ==
  [][(NoNodeSelected /\ DeleteOrEdit) => (nodes' = nodes /\ edges' = edges)]_vars

\* The Delete key was pressed for an id that no node had: the handler
\* filtered on that id and the collection still has all its MaxNodes nodes.
C29_Witness ==
  /\ deleted # Null
  /\ ~HasNode(nodes, deleted)
  /\ Len(nodes) = MaxNodes
  /\ selectedNodeId = Null

(* ---------------------------------------------------------------------- *)
(* Error and success                                                       *)
(* ---------------------------------------------------------------------- *)
\* C30: the error message and the success message are never displayed
\* together; right after a save attempt exactly one of them is displayed,
\* the error if the verdict was negative and the success message otherwise.
C30_ErrorXorSuccess ==
  /\ ~(error # Null /\ success # Null)
  /\ Rejected => (error # Null /\ success = Null)
  /\ Accepted => (success # Null /\ error = Null)

\* A rejected save made while the timer of an earlier successful save is
\* pending: the error is displayed and the success message is gone.
C30_Witness ==
  /\ Rejected
  /\ timers > 0
  /\ error # Null
  /\ success = Null

====
